---- MODULE Spec2Model ----
(***************************************************************************)
(* A model of the QUIC frame parser of internal/wire/frame_parser.go:      *)
(* the FrameParser object (two extension toggles, the ACK delay exponent   *)
(* and the reused ACK frame), its operations ParseType,                    *)
(* ParseLessCommonFrame, ParseNext, ParseFrame, ParseAckFrame,             *)
(* ParseDatagramFrame and SetAckDelayExponent, and a caller that hands it  *)
(* byte regions.  Bytes are the naturals 0..255, a region is a sequence of *)
(* bytes, durations are counted in microseconds.                           *)
(***************************************************************************)
EXTENDS Integers, Sequences, FiniteSets, TLC

(***************************************************************************)
(* Bounds of the model.                                                    *)
(***************************************************************************)
\* longest region enumerated byte by byte (SpecBytes)
MaxLen == 3
\* most PADDING frames put in front of an encoded frame (Spec)
MaxPad == 2

(***************************************************************************)
(* Errors.  Every error value has the same shape; Error is err.Error().    *)
(* A message is the sequence of its format string and its arguments.       *)
(***************************************************************************)
nil == [kind |-> "nil", FrameType |-> 0, ErrorCode |-> "", ErrorMessage |-> <<>>]

ioEOF == [kind |-> "io.EOF", FrameType |-> 0, ErrorCode |-> "", ErrorMessage |-> <<"EOF">>]

ioErrUnexpectedEOF == [kind |-> "io.ErrUnexpectedEOF", FrameType |-> 0, ErrorCode |-> "", ErrorMessage |-> <<"unexpected EOF">>]

errUnknownFrameType == [kind |-> "errors", FrameType |-> 0, ErrorCode |-> "", ErrorMessage |-> <<"unknown frame type">>]

fmtErrorf(msg) == [kind |-> "errors", FrameType |-> 0, ErrorCode |-> "", ErrorMessage |-> msg]

FrameEncodingError == "FrameEncodingError"

TransportError(frameType, code, msg) == [kind |-> "TransportError", FrameType |-> frameType, ErrorCode |-> code, ErrorMessage |-> msg]

replaceUnexpectedEOF(e) == IF e = ioErrUnexpectedEOF THEN ioEOF ELSE e

(***************************************************************************)
(* Encryption levels.                                                      *)
(***************************************************************************)
EncryptionInitial == "Initial"

EncryptionHandshake == "Handshake"

Encryption0RTT == "0-RTT"

Encryption1RTT == "1-RTT"

EncryptionLevels == {EncryptionInitial, EncryptionHandshake, Encryption0RTT, Encryption1RTT}

\* protocol.DefaultAckDelayExponent and protocol.AckDelayExponent
DefaultAckDelayExponent == 3

AckDelayExponent == 3

(***************************************************************************)
(* The variable-length integer codec (quicvarint).                         *)
(***************************************************************************)
\* the length of an encoding, selected by the two high bits of its first byte
quicvarintLen(first) ==
    CASE first \div 64 = 0 -> 1
      [] first \div 64 = 1 -> 2
      [] first \div 64 = 2 -> 4
      [] OTHER -> 8

RECURSIVE beValue(_, _)
\* the big-endian value of b[1..n], the two high bits of b[1] masked off
beValue(b, n) == IF n = 1 THEN b[1] % 64 ELSE beValue(b, n - 1) * 256 + b[n]

quicvarintParse(b) ==
    IF Len(b) = 0 THEN [value |-> 0, l |-> 0, err |-> ioEOF]
    ELSE IF Len(b) < quicvarintLen(b[1]) THEN [value |-> 0, l |-> 0, err |-> ioErrUnexpectedEOF]
    ELSE [value |-> beValue(b, quicvarintLen(b[1])), l |-> quicvarintLen(b[1]), err |-> nil]

\* the minimal-length encoding of v
quicvarintEncode(v) ==
    IF v <= 63 THEN <<v>>
    ELSE IF v <= 16383 THEN <<64 + (v \div 256), v % 256>>
    ELSE IF v <= 1073741823 THEN <<128 + (v \div 16777216), (v \div 65536) % 256, (v \div 256) % 256, v % 256>>
    ELSE <<192, 0, 0, 0, v \div 16777216, (v \div 65536) % 256, (v \div 256) % 256, v % 256>>

quicvarintAppend(b, v) == b \o quicvarintEncode(v)

(***************************************************************************)
(* The frame-type table (FrameType is a uint64).                           *)
(***************************************************************************)
PingFrameType == 1

AckFrameType == 2

AckECNFrameType == 3

ResetStreamFrameType == 4

StopSendingFrameType == 5

CryptoFrameType == 6

NewTokenFrameType == 7

MaxDataFrameType == 16

MaxStreamDataFrameType == 17

BidiMaxStreamsFrameType == 18

UniMaxStreamsFrameType == 19

DataBlockedFrameType == 20

StreamDataBlockedFrameType == 21

BidiStreamBlockedFrameType == 22

UniStreamBlockedFrameType == 23

NewConnectionIDFrameType == 24

RetireConnectionIDFrameType == 25

PathChallengeFrameType == 26

PathResponseFrameType == 27

ConnectionCloseFrameType == 28

ApplicationCloseFrameType == 29

HandshakeDoneFrameType == 30

ResetStreamAtFrameType == 36

DatagramNoLengthFrameType == 48

DatagramWithLengthFrameType == 49

\* the STREAM codes 0x08..0x0f
IsStreamFrameType(t) == t >= 8 /\ t <= 15

KnownFrameTypes ==
    {PingFrameType, AckFrameType, AckECNFrameType, ResetStreamFrameType,
     StopSendingFrameType, CryptoFrameType, NewTokenFrameType,
     MaxDataFrameType, MaxStreamDataFrameType, BidiMaxStreamsFrameType,
     UniMaxStreamsFrameType, DataBlockedFrameType, StreamDataBlockedFrameType,
     BidiStreamBlockedFrameType, UniStreamBlockedFrameType,
     NewConnectionIDFrameType, RetireConnectionIDFrameType,
     PathChallengeFrameType, PathResponseFrameType, ConnectionCloseFrameType,
     ApplicationCloseFrameType, HandshakeDoneFrameType, ResetStreamAtFrameType,
     DatagramNoLengthFrameType, DatagramWithLengthFrameType}
    \cup {t \in 8..15 : IsStreamFrameType(t)}

\* classify: a static lookup, blind to the parser's toggles
NewFrameType(typ) ==
    IF typ \in KnownFrameTypes THEN [frameType |-> typ, ok |-> TRUE]
    ELSE [frameType |-> 0, ok |-> FALSE]

isAllowedAtEncLevel(t, encLevel) ==
    CASE encLevel \in {EncryptionInitial, EncryptionHandshake} ->
            t \in {CryptoFrameType, AckFrameType, AckECNFrameType, ConnectionCloseFrameType, PingFrameType}
      [] encLevel = Encryption0RTT ->
            t \notin {CryptoFrameType, AckFrameType, AckECNFrameType, ConnectionCloseFrameType,
                      NewTokenFrameType, PathResponseFrameType, RetireConnectionIDFrameType,
                      HandshakeDoneFrameType}
      [] OTHER -> TRUE

(***************************************************************************)
(* The frame variant family.  A frame value is a record: its Go type under *)
(* "frame" and its fields.  A body is a list of fields, each a variable-   *)
(* length integer ("v"), a byte string behind its variable-length-integer  *)
(* length ("lv"), a byte string behind a one-byte length ("cid") or a      *)
(* fixed number of bytes ("fixed").                                        *)
(***************************************************************************)
Version1 == "Version1"

nilFrame == [frame |-> "nil"]

StreamTypeBidi == "StreamTypeBidi"

StreamTypeUni == "StreamTypeUni"

Field(name, k) == [name |-> name, k |-> k, n |-> 0]

FixedField(name, n) == [name |-> name, k |-> "fixed", n |-> n]

\* b[from+1 ..]
Drop(b, from) == SubSeq(b, from + 1, Len(b))

RECURSIVE parseFields(_, _, _, _)
RECURSIVE parseField(_, _, _, _, _, _)
\* decode the field Head(layout) from rest = data[pos+1..], r the integer
\* rest starts with; then the fields that follow
parseField(layout, data, pos, acc, rest, r) ==
    CASE Head(layout).k = "v" ->
            IF r.err # nil THEN [f |-> acc, l |-> 0, err |-> ioEOF]
            ELSE parseFields(Tail(layout), data, pos + r.l, acc @@ (Head(layout).name :> r.value))
      [] Head(layout).k = "lv" ->
            IF r.err # nil \/ r.value > Len(rest) - r.l THEN [f |-> acc, l |-> 0, err |-> ioEOF]
            ELSE parseFields(Tail(layout), data, pos + r.l + r.value,
                             acc @@ (Head(layout).name :> SubSeq(rest, r.l + 1, r.l + r.value)))
      [] Head(layout).k = "cid" ->
            IF Len(rest) = 0 \/ rest[1] > Len(rest) - 1 THEN [f |-> acc, l |-> 0, err |-> ioEOF]
            ELSE parseFields(Tail(layout), data, pos + 1 + rest[1],
                             acc @@ (Head(layout).name :> SubSeq(rest, 2, 1 + rest[1])))
      [] OTHER ->
            IF Len(rest) < Head(layout).n THEN [f |-> acc, l |-> 0, err |-> ioEOF]
            ELSE parseFields(Tail(layout), data, pos + Head(layout).n,
                             acc @@ (Head(layout).name :> SubSeq(rest, 1, Head(layout).n)))

\* decode the fields of layout from data[pos+1..]; acc holds the fields read
parseFields(layout, data, pos, acc) ==
    IF layout = <<>> THEN [f |-> acc, l |-> pos, err |-> nil]
    ELSE parseField(layout, data, pos, acc, Drop(data, pos), quicvarintParse(Drop(data, pos)))

RECURSIVE appendFields(_, _, _)
\* append the fields of frame value f, in the order of layout, to b
appendFields(b, layout, f) ==
    IF layout = <<>> THEN b
    ELSE LET fd == Head(layout)
             x == f[fd.name]
         IN appendFields(
                CASE fd.k = "v" -> quicvarintAppend(b, x)
                  [] fd.k = "lv" -> quicvarintAppend(b, Len(x)) \o x
                  [] fd.k = "cid" -> b \o <<Len(x)>> \o x
                  [] OTHER -> b \o x,
                Tail(layout), f)

\* the frame a body decoder returns: nil on error
decoded(name, fixed, r) ==
    IF r.err # nil THEN [frame |-> nilFrame, l |-> 0, err |-> r.err]
    ELSE [frame |-> ("frame" :> name) @@ r.f @@ fixed, l |-> r.l, err |-> nil]

NoFields == [x \in {} |-> 0]

ResetStreamLayout(isResetStreamAt) ==
    <<Field("StreamID", "v"), Field("ErrorCode", "v"), Field("FinalSize", "v")>>
    \o (IF isResetStreamAt THEN <<Field("ReliableSize", "v")>> ELSE <<>>)

parseResetStreamFrame(b, isResetStreamAt, v) ==
    decoded("ResetStreamFrame",
            IF isResetStreamAt THEN NoFields ELSE ("ReliableSize" :> 0),
            parseFields(ResetStreamLayout(isResetStreamAt), b, 0, NoFields))

StopSendingLayout == <<Field("StreamID", "v"), Field("ErrorCode", "v")>>

parseStopSendingFrame(b, v) ==
    decoded("StopSendingFrame", NoFields, parseFields(StopSendingLayout, b, 0, NoFields))

CryptoLayout == <<Field("Offset", "v"), Field("Data", "lv")>>

parseCryptoFrame(b, v) ==
    decoded("CryptoFrame", NoFields, parseFields(CryptoLayout, b, 0, NoFields))

NewTokenLayout == <<Field("Token", "lv")>>

parseNewTokenFrame(b, v) ==
    decoded("NewTokenFrame", NoFields, parseFields(NewTokenLayout, b, 0, NoFields))

MaxDataLayout == <<Field("MaximumData", "v")>>

parseMaxDataFrame(b, v) ==
    decoded("MaxDataFrame", NoFields, parseFields(MaxDataLayout, b, 0, NoFields))

MaxStreamDataLayout == <<Field("StreamID", "v"), Field("MaximumStreamData", "v")>>

parseMaxStreamDataFrame(b, v) ==
    decoded("MaxStreamDataFrame", NoFields, parseFields(MaxStreamDataLayout, b, 0, NoFields))

MaxStreamsLayout == <<Field("MaxStreamNum", "v")>>

\* the directionality comes from the type code, not from a field
parseMaxStreamsFrame(b, typ, v) ==
    decoded("MaxStreamsFrame",
            "Type" :> (IF typ = BidiMaxStreamsFrameType THEN StreamTypeBidi ELSE StreamTypeUni),
            parseFields(MaxStreamsLayout, b, 0, NoFields))

DataBlockedLayout == <<Field("MaximumData", "v")>>

parseDataBlockedFrame(b, v) ==
    decoded("DataBlockedFrame", NoFields, parseFields(DataBlockedLayout, b, 0, NoFields))

StreamDataBlockedLayout == <<Field("StreamID", "v"), Field("MaximumStreamData", "v")>>

parseStreamDataBlockedFrame(b, v) ==
    decoded("StreamDataBlockedFrame", NoFields, parseFields(StreamDataBlockedLayout, b, 0, NoFields))

StreamsBlockedLayout == <<Field("StreamLimit", "v")>>

parseStreamsBlockedFrame(b, typ, v) ==
    decoded("StreamsBlockedFrame",
            "Type" :> (IF typ = BidiStreamBlockedFrameType THEN StreamTypeBidi ELSE StreamTypeUni),
            parseFields(StreamsBlockedLayout, b, 0, NoFields))

\* the stateless reset token is 16 bytes
StatelessResetTokenLen == 16

NewConnectionIDLayout ==
    <<Field("SequenceNumber", "v"), Field("RetirePriorTo", "v"),
      Field("ConnectionID", "cid"), FixedField("StatelessResetToken", StatelessResetTokenLen)>>

parseNewConnectionIDFrame(b, v) ==
    decoded("NewConnectionIDFrame", NoFields, parseFields(NewConnectionIDLayout, b, 0, NoFields))

RetireConnectionIDLayout == <<Field("SequenceNumber", "v")>>

parseRetireConnectionIDFrame(b, v) ==
    decoded("RetireConnectionIDFrame", NoFields, parseFields(RetireConnectionIDLayout, b, 0, NoFields))

\* the data of PATH_CHALLENGE and PATH_RESPONSE is 8 bytes
PathDataLen == 8

PathLayout == <<FixedField("Data", PathDataLen)>>

parsePathChallengeFrame(b, v) ==
    decoded("PathChallengeFrame", NoFields, parseFields(PathLayout, b, 0, NoFields))

parsePathResponseFrame(b, v) ==
    decoded("PathResponseFrame", NoFields, parseFields(PathLayout, b, 0, NoFields))

\* the transport variant carries the type code of the triggering frame
ConnectionCloseLayout(isApplicationError) ==
    <<Field("ErrorCode", "v")>>
    \o (IF isApplicationError THEN <<>> ELSE <<Field("FrameType", "v")>>)
    \o <<Field("ReasonPhrase", "lv")>>

parseConnectionCloseFrame(b, typ, v) ==
    decoded("ConnectionCloseFrame",
            IF typ = ApplicationCloseFrameType
            THEN ("IsApplicationError" :> TRUE) @@ ("FrameType" :> 0)
            ELSE ("IsApplicationError" :> FALSE),
            parseFields(ConnectionCloseLayout(typ = ApplicationCloseFrameType), b, 0, NoFields))

(***************************************************************************)
(* STREAM, DATAGRAM and ACK: the three frame kinds with their own decoders.*)
(***************************************************************************)
\* the low three bits of a STREAM code: fin (1), length present (2), offset present (4)
StreamLayout(typ) ==
    <<Field("StreamID", "v")>>
    \o (IF (typ \div 4) % 2 = 1 THEN <<Field("Offset", "v")>> ELSE <<>>)
    \o (IF (typ \div 2) % 2 = 1 THEN <<Field("Data", "lv")>> ELSE <<>>)

\* without a length the data is the rest of the region
streamData(b, hasDataLen, r) ==
    IF r.err # nil \/ hasDataLen THEN r
    ELSE [f |-> r.f @@ ("Data" :> Drop(b, r.l)), l |-> Len(b), err |-> nil]

wireParseStreamFrame(b, typ, v) ==
    decoded("StreamFrame",
            ("Fin" :> (typ % 2 = 1)) @@ ("DataLenPresent" :> ((typ \div 2) % 2 = 1)) @@ ("Offset" :> 0),
            streamData(b, (typ \div 2) % 2 = 1, parseFields(StreamLayout(typ), b, 0, NoFields)))

wireParseDatagramFrame(b, typ, v) ==
    decoded("DatagramFrame", "DataLenPresent" :> (typ % 2 = 1),
            IF typ % 2 = 1 THEN parseFields(<<Field("Data", "lv")>>, b, 0, NoFields)
            ELSE [f |-> ("Data" :> b), l |-> Len(b), err |-> nil])

\* AckFrame.Reset
AckFrameReset == [frame |-> "AckFrame", AckRanges |-> <<>>, DelayTime |-> 0, ECT0 |-> 0, ECT1 |-> 0, ECNCE |-> 0]

RECURSIVE Pow2(_)
Pow2(n) == IF n = 0 THEN 1 ELSE 2 * Pow2(n - 1)

RECURSIVE parseAckRanges(_, _, _, _, _)
RECURSIVE parseAckRange(_, _, _, _, _, _, _)
\* one further range, g its gap and a its length, below smallest
parseAckRange(b, pos, n, smallest, ranges, g, a) ==
    IF g.err # nil \/ a.err # nil THEN [ranges |-> ranges, l |-> 0, err |-> ioEOF]
    ELSE IF smallest < g.value + 2 \/ a.value > smallest - g.value - 2
    THEN [ranges |-> ranges, l |-> 0, err |-> fmtErrorf(<<"invalid ACK range">>)]
    ELSE parseAckRanges(b, pos + g.l + a.l, n - 1, smallest - g.value - 2 - a.value,
                        Append(ranges, [Smallest |-> smallest - g.value - 2 - a.value,
                                        Largest |-> smallest - g.value - 2]))

\* the n further ranges, each a gap and a length below the range before it
parseAckRanges(b, pos, n, smallest, ranges) ==
    IF n = 0 THEN [ranges |-> ranges, l |-> pos, err |-> nil]
    ELSE parseAckRange(b, pos, n, smallest, ranges, quicvarintParse(Drop(b, pos)),
                       quicvarintParse(Drop(b, pos + quicvarintParse(Drop(b, pos)).l)))

\* the ECN counts, behind the ranges rs
ackECN(frame, typ, head, exp, rs, ecn) ==
    IF ecn.err # nil THEN [frame |-> frame, l |-> 0, err |-> ecn.err]
    ELSE [frame |-> [frame |-> "AckFrame", AckRanges |-> rs.ranges,
                     DelayTime |-> head.f["delay"] * Pow2(exp),
                     ECT0 |-> IF typ = AckECNFrameType THEN ecn.f["ECT0"] ELSE frame.ECT0,
                     ECT1 |-> IF typ = AckECNFrameType THEN ecn.f["ECT1"] ELSE frame.ECT1,
                     ECNCE |-> IF typ = AckECNFrameType THEN ecn.f["ECNCE"] ELSE frame.ECNCE],
          l |-> ecn.l, err |-> nil]

\* the ranges, behind the four integers of head
ackRanges(frame, b, typ, head, exp, rs) ==
    IF rs.err # nil THEN [frame |-> frame, l |-> 0, err |-> rs.err]
    ELSE ackECN(frame, typ, head, exp, rs,
                parseFields(IF typ = AckECNFrameType
                            THEN <<Field("ECT0", "v"), Field("ECT1", "v"), Field("ECNCE", "v")>>
                            ELSE <<>>, b, rs.l, NoFields))

\* head: the largest acknowledged, the delay, the range count, the first range
ackHead(frame, b, typ, exp, head) ==
    IF head.err # nil THEN [frame |-> frame, l |-> 0, err |-> head.err]
    ELSE IF head.f["ackBlock"] > head.f["la"]
    THEN [frame |-> frame, l |-> 0, err |-> fmtErrorf(<<"invalid first ACK range">>)]
    ELSE ackRanges(frame, b, typ, head, exp,
                   parseAckRanges(b, head.l, head.f["numBlocks"], head.f["la"] - head.f["ackBlock"],
                                  Append(frame.AckRanges,
                                         [Smallest |-> head.f["la"] - head.f["ackBlock"],
                                          Largest |-> head.f["la"]])))

\* decodes into frame (the caller's AckFrame): the ranges are appended to
\* those it holds and the ECN counts are written only when the body has
\* them; the delay is scaled by 2^ackDelayExponent
wireParseAckFrame(frame, b, typ, ackDelayExponent, v) ==
    ackHead(frame, b, typ, ackDelayExponent,
            parseFields(<<Field("la", "v"), Field("delay", "v"), Field("numBlocks", "v"), Field("ackBlock", "v")>>,
                        b, 0, NoFields))

(***************************************************************************)
(* Frame.Append: the type code, then the body.                             *)
(***************************************************************************)
RECURSIVE appendAckRanges(_, _, _)
appendAckRanges(b, ranges, i) ==
    IF i > Len(ranges) THEN b
    ELSE appendAckRanges(
             quicvarintAppend(quicvarintAppend(b, ranges[i - 1].Smallest - ranges[i].Largest - 2),
                              ranges[i].Largest - ranges[i].Smallest),
             ranges, i + 1)

AckFrameAppend(b, f, v) ==
    LET hasECN == f.ECT0 > 0 \/ f.ECT1 > 0 \/ f.ECNCE > 0
        b1 == quicvarintAppend(b, IF hasECN THEN AckECNFrameType ELSE AckFrameType)
        b2 == quicvarintAppend(b1, f.AckRanges[1].Largest)
        b3 == quicvarintAppend(b2, f.DelayTime \div Pow2(AckDelayExponent))
        b4 == quicvarintAppend(b3, Len(f.AckRanges) - 1)
        b5 == quicvarintAppend(b4, f.AckRanges[1].Largest - f.AckRanges[1].Smallest)
        b6 == appendAckRanges(b5, f.AckRanges, 2)
    IN IF hasECN THEN quicvarintAppend(quicvarintAppend(quicvarintAppend(b6, f.ECT0), f.ECT1), f.ECNCE)
       ELSE b6

\* the type code a frame value is written with
FrameTypeOf(f) ==
    CASE f.frame = "PingFrame" -> PingFrameType
      [] f.frame = "ResetStreamFrame" -> IF f.ReliableSize = 0 THEN ResetStreamFrameType ELSE ResetStreamAtFrameType
      [] f.frame = "StopSendingFrame" -> StopSendingFrameType
      [] f.frame = "CryptoFrame" -> CryptoFrameType
      [] f.frame = "NewTokenFrame" -> NewTokenFrameType
      [] f.frame = "MaxDataFrame" -> MaxDataFrameType
      [] f.frame = "MaxStreamDataFrame" -> MaxStreamDataFrameType
      [] f.frame = "MaxStreamsFrame" -> IF f.Type = StreamTypeBidi THEN BidiMaxStreamsFrameType ELSE UniMaxStreamsFrameType
      [] f.frame = "DataBlockedFrame" -> DataBlockedFrameType
      [] f.frame = "StreamDataBlockedFrame" -> StreamDataBlockedFrameType
      [] f.frame = "StreamsBlockedFrame" -> IF f.Type = StreamTypeBidi THEN BidiStreamBlockedFrameType ELSE UniStreamBlockedFrameType
      [] f.frame = "NewConnectionIDFrame" -> NewConnectionIDFrameType
      [] f.frame = "RetireConnectionIDFrame" -> RetireConnectionIDFrameType
      [] f.frame = "PathChallengeFrame" -> PathChallengeFrameType
      [] f.frame = "PathResponseFrame" -> PathResponseFrameType
      [] f.frame = "ConnectionCloseFrame" -> IF f.IsApplicationError THEN ApplicationCloseFrameType ELSE ConnectionCloseFrameType
      [] f.frame = "HandshakeDoneFrame" -> HandshakeDoneFrameType
      [] f.frame = "StreamFrame" ->
            8 + (IF f.Fin THEN 1 ELSE 0) + (IF f.DataLenPresent THEN 2 ELSE 0) + (IF f.Offset # 0 THEN 4 ELSE 0)
      [] f.frame = "DatagramFrame" -> IF f.DataLenPresent THEN DatagramWithLengthFrameType ELSE DatagramNoLengthFrameType
      [] OTHER -> IF f.ECT0 > 0 \/ f.ECT1 > 0 \/ f.ECNCE > 0 THEN AckECNFrameType ELSE AckFrameType

\* the body of a frame value, field by field
LayoutOf(f) ==
    CASE f.frame = "ResetStreamFrame" -> ResetStreamLayout(f.ReliableSize # 0)
      [] f.frame = "StopSendingFrame" -> StopSendingLayout
      [] f.frame = "CryptoFrame" -> CryptoLayout
      [] f.frame = "NewTokenFrame" -> NewTokenLayout
      [] f.frame = "MaxDataFrame" -> MaxDataLayout
      [] f.frame = "MaxStreamDataFrame" -> MaxStreamDataLayout
      [] f.frame = "MaxStreamsFrame" -> MaxStreamsLayout
      [] f.frame = "DataBlockedFrame" -> DataBlockedLayout
      [] f.frame = "StreamDataBlockedFrame" -> StreamDataBlockedLayout
      [] f.frame = "StreamsBlockedFrame" -> StreamsBlockedLayout
      [] f.frame = "NewConnectionIDFrame" -> NewConnectionIDLayout
      [] f.frame = "RetireConnectionIDFrame" -> RetireConnectionIDLayout
      [] f.frame = "PathChallengeFrame" -> PathLayout
      [] f.frame = "PathResponseFrame" -> PathLayout
      [] f.frame = "ConnectionCloseFrame" -> ConnectionCloseLayout(f.IsApplicationError)
      [] f.frame = "StreamFrame" -> StreamLayout(FrameTypeOf(f))
      [] f.frame = "DatagramFrame" -> IF f.DataLenPresent THEN <<Field("Data", "lv")>> ELSE <<>>
      [] OTHER -> <<>>

\* f.Append(b, v)
FrameAppend(b, f, v) ==
    IF f.frame = "AckFrame" THEN AckFrameAppend(b, f, v)
    ELSE LET body == appendFields(quicvarintAppend(b, FrameTypeOf(f)), LayoutOf(f), f)
         IN IF f.frame \in {"StreamFrame", "DatagramFrame"} /\ ~f.DataLenPresent
            THEN body \o f.Data ELSE body

(***************************************************************************)
(* The FrameParser.  A parser is the record of its four fields; ackFrame   *)
(* is the value of the one AckFrame the parser owns.                       *)
(***************************************************************************)
\* the address of the AckFrame NewFrameParser allocates; NoAddress is that of
\* no AckFrame of a parser
FirstAddress == 1

NoAddress == 0

\* p.ackFrame is a pointer: ackFrame is the AckFrame it points to and
\* ackFrameAt the address it holds
NewFrameParser(supportsDatagrams, supportsResetStreamAt) ==
    [ackDelayExponent |-> 0,
     supportsDatagrams |-> supportsDatagrams,
     supportsResetStreamAt |-> supportsResetStreamAt,
     ackFrame |-> AckFrameReset,
     ackFrameAt |-> FirstAddress]

\* ParseType returning the length of the type code alone, without the
\* PADDING before it
parseTypeStepLast(r, encLevel, parsed, skipped, t) ==
    IF r.err # nil
    THEN [frameType |-> 0, l |-> parsed + r.l, skipped |-> skipped, continue |-> FALSE,
          err |-> TransportError(0, FrameEncodingError, r.err.ErrorMessage)]
    ELSE IF r.value = 0
    THEN [frameType |-> 0, l |-> parsed + r.l, skipped |-> Append(skipped, r.l), continue |-> TRUE, err |-> nil]
    ELSE IF ~t.ok
    THEN [frameType |-> 0, l |-> parsed + r.l, skipped |-> skipped, continue |-> FALSE,
          err |-> TransportError(0, FrameEncodingError, <<"unknown frame type: %d", r.value>>)]
    ELSE IF ~isAllowedAtEncLevel(t.frameType, encLevel)
    THEN [frameType |-> 0, l |-> parsed + r.l, skipped |-> skipped, continue |-> FALSE,
          err |-> TransportError(0, FrameEncodingError,
                                 <<"%d not allowed at encryption level %s", t.frameType, encLevel>>)]
    ELSE [frameType |-> r.value, l |-> r.l, skipped |-> skipped, continue |-> FALSE, err |-> nil]

\* one pass of ParseType's loop, r the type code read; skipped lists the
\* length of each PADDING entry passed over so far
parseTypeStep(r, encLevel, parsed, skipped, t) ==
    IF r.err # nil
    THEN [frameType |-> 0, l |-> parsed + r.l, skipped |-> skipped, continue |-> FALSE,
          err |-> TransportError(0, FrameEncodingError, r.err.ErrorMessage)]
    ELSE IF r.value = 0
    THEN [frameType |-> 0, l |-> parsed + r.l, skipped |-> Append(skipped, r.l), continue |-> TRUE, err |-> nil]
    ELSE IF ~t.ok
    THEN [frameType |-> 0, l |-> parsed + r.l, skipped |-> skipped, continue |-> FALSE,
          err |-> TransportError(0, FrameEncodingError, <<"unknown frame type: %d", r.value>>)]
    ELSE IF ~isAllowedAtEncLevel(t.frameType, encLevel)
    THEN [frameType |-> 0, l |-> parsed + r.l, skipped |-> skipped, continue |-> FALSE,
          err |-> TransportError(0, FrameEncodingError,
                                 <<"%d not allowed at encryption level %s", t.frameType, encLevel>>)]
    ELSE [frameType |-> r.value, l |-> parsed + r.l, skipped |-> skipped, continue |-> FALSE, err |-> nil]

RECURSIVE parseTypeLoop(_, _, _, _)
RECURSIVE parseTypeNext(_, _, _, _)
\* after a pass over the first n bytes of b: the next pass, or the result
parseTypeNext(b, n, encLevel, s) ==
    IF s.continue THEN parseTypeLoop(Drop(b, n), encLevel, s.l, s.skipped)
    ELSE [frameType |-> s.frameType, l |-> s.l, err |-> s.err, skipped |-> s.skipped]

\* ParseType wrapping the end of the region like every other error
parseTypeLoopWrapped(b, encLevel, parsed, skipped) ==
    IF Len(b) = 0
    THEN [frameType |-> 0, l |-> parsed, err |-> TransportError(0, FrameEncodingError, ioEOF.ErrorMessage),
          skipped |-> skipped]
    ELSE parseTypeNext(b, quicvarintParse(b).l, encLevel,
                       parseTypeStep(quicvarintParse(b), encLevel, parsed, skipped,
                                     NewFrameType(quicvarintParse(b).value)))

\* the loop of ParseType on b, what is left of the region
parseTypeLoop(b, encLevel, parsed, skipped) ==
    IF Len(b) = 0 THEN [frameType |-> 0, l |-> parsed, err |-> ioEOF, skipped |-> skipped]
    ELSE parseTypeNext(b, quicvarintParse(b).l, encLevel,
                       parseTypeStep(quicvarintParse(b), encLevel, parsed, skipped,
                                     NewFrameType(quicvarintParse(b).value)))

ParseType(p, b, encLevel) == parseTypeLoop(b, encLevel, 0, <<>>)

\* the switch of ParseLessCommonFrame, supportsResetStreamAt the parser's toggle
lessCommonSwitch(supportsResetStreamAt, frameType, data, v) ==
    CASE frameType = PingFrameType -> [frame |-> [frame |-> "PingFrame"], l |-> 0, err |-> nil]
      [] frameType = ResetStreamFrameType -> parseResetStreamFrame(data, FALSE, v)
      [] frameType = StopSendingFrameType -> parseStopSendingFrame(data, v)
      [] frameType = CryptoFrameType -> parseCryptoFrame(data, v)
      [] frameType = NewTokenFrameType -> parseNewTokenFrame(data, v)
      [] frameType = MaxDataFrameType -> parseMaxDataFrame(data, v)
      [] frameType = MaxStreamDataFrameType -> parseMaxStreamDataFrame(data, v)
      [] frameType \in {BidiMaxStreamsFrameType, UniMaxStreamsFrameType} -> parseMaxStreamsFrame(data, frameType, v)
      [] frameType = DataBlockedFrameType -> parseDataBlockedFrame(data, v)
      [] frameType = StreamDataBlockedFrameType -> parseStreamDataBlockedFrame(data, v)
      [] frameType \in {BidiStreamBlockedFrameType, UniStreamBlockedFrameType} -> parseStreamsBlockedFrame(data, frameType, v)
      [] frameType = NewConnectionIDFrameType -> parseNewConnectionIDFrame(data, v)
      [] frameType = RetireConnectionIDFrameType -> parseRetireConnectionIDFrame(data, v)
      [] frameType = PathChallengeFrameType -> parsePathChallengeFrame(data, v)
      [] frameType = PathResponseFrameType -> parsePathResponseFrame(data, v)
      [] frameType \in {ConnectionCloseFrameType, ApplicationCloseFrameType} -> parseConnectionCloseFrame(data, frameType, v)
      [] frameType = HandshakeDoneFrameType -> [frame |-> [frame |-> "HandshakeDoneFrame"], l |-> 0, err |-> nil]
      [] frameType = ResetStreamAtFrameType ->
             IF ~supportsResetStreamAt THEN [frame |-> nilFrame, l |-> 0, err |-> errUnknownFrameType]
             ELSE parseResetStreamFrame(data, TRUE, v)
      [] OTHER -> [frame |-> nilFrame, l |-> 0, err |-> errUnknownFrameType]

\* the RESET_STREAM_AT case without its check of the toggle
ParseLessCommonFrameUngated(p, frameType, data, v) == lessCommonSwitch(TRUE, frameType, data, v)

\* the two MAX_STREAMS cases taken as one, the bidirectional one
ParseLessCommonFrameBidi(p, frameType, data, v) ==
    lessCommonSwitch(p.supportsResetStreamAt,
                     IF frameType = UniMaxStreamsFrameType THEN BidiMaxStreamsFrameType ELSE frameType, data, v)

ParseLessCommonFrame(p, frameType, data, v) == lessCommonSwitch(p.supportsResetStreamAt, frameType, data, v)

\* the configured exponent at every encryption level
ackDelayExponentSet(p, encLevel) == p.ackDelayExponent

\* the ackDelayExponent an ACK decode at encLevel uses
ackDelayExponentAt(p, encLevel) ==
    IF encLevel # Encryption1RTT THEN DefaultAckDelayExponent ELSE p.ackDelayExponent

\* byte(frameTyp)&0xf8 == 0x8: the conversion keeps the low 8 bits only
isStreamByte(frameTyp) == ((frameTyp % 256) \div 8) = 1

\* a decode routine's result that also resets the parser's AckFrame
viaResetting(routine, p, r) ==
    [frame |-> r.frame, l |-> r.l, err |-> r.err, routine |-> routine,
     p |-> [p EXCEPT !.ackFrame = AckFrameReset], returned |-> FALSE, at |-> NoAddress]

\* a decode routine's result r, with the routine's name and the parser
\* afterwards; returned marks the two returns from inside the switch
via(routine, p, r) ==
    [frame |-> r.frame, l |-> r.l, err |-> r.err, routine |-> routine, p |-> p, returned |-> FALSE,
     at |-> NoAddress]

\* the ACK case: p.ackFrame is reset, decoded into and returned
viaAckFrame(p, ack) ==
    [frame |-> ack.frame, l |-> ack.l, err |-> ack.err, routine |-> "ParseAckFrame",
     p |-> [p EXCEPT !.ackFrame = ack.frame], returned |-> FALSE, at |-> p.ackFrameAt]

noFrame(p, l, err, routine, returned) ==
    [frame |-> nilFrame, l |-> l, err |-> err, routine |-> routine, p |-> p, returned |-> returned,
     at |-> NoAddress]

\* the dispatch of ParseFrame on frameTyp; routine is the decode routine
\* the type code was handed to ("" when none was called)
parseFrameSwitch(p, b, frameTyp, encLevel, v) ==
    IF isStreamByte(frameTyp) THEN via("ParseStreamFrame", p, wireParseStreamFrame(b, frameTyp, v))
    ELSE CASE frameTyp = PingFrameType -> via("", p, [frame |-> [frame |-> "PingFrame"], l |-> 0, err |-> nil])
           [] frameTyp \in {AckFrameType, AckECNFrameType} ->
                  viaAckFrame(p, wireParseAckFrame(AckFrameReset, b, frameTyp, ackDelayExponentAt(p, encLevel), v))
           [] frameTyp = ResetStreamFrameType -> via("parseResetStreamFrame", p, parseResetStreamFrame(b, FALSE, v))
           [] frameTyp = StopSendingFrameType -> via("parseStopSendingFrame", p, parseStopSendingFrame(b, v))
           [] frameTyp = CryptoFrameType -> via("parseCryptoFrame", p, parseCryptoFrame(b, v))
           [] frameTyp = NewTokenFrameType -> via("parseNewTokenFrame", p, parseNewTokenFrame(b, v))
           [] frameTyp = MaxDataFrameType -> via("parseMaxDataFrame", p, parseMaxDataFrame(b, v))
           [] frameTyp = MaxStreamDataFrameType -> via("parseMaxStreamDataFrame", p, parseMaxStreamDataFrame(b, v))
           [] frameTyp \in {BidiMaxStreamsFrameType, UniMaxStreamsFrameType} ->
                  via("parseMaxStreamsFrame", p, parseMaxStreamsFrame(b, frameTyp, v))
           [] frameTyp = DataBlockedFrameType -> via("parseDataBlockedFrame", p, parseDataBlockedFrame(b, v))
           [] frameTyp = StreamDataBlockedFrameType ->
                  via("parseStreamDataBlockedFrame", p, parseStreamDataBlockedFrame(b, v))
           [] frameTyp \in {BidiStreamBlockedFrameType, UniStreamBlockedFrameType} ->
                  via("parseStreamsBlockedFrame", p, parseStreamsBlockedFrame(b, frameTyp, v))
           [] frameTyp = NewConnectionIDFrameType -> via("parseNewConnectionIDFrame", p, parseNewConnectionIDFrame(b, v))
           [] frameTyp = RetireConnectionIDFrameType ->
                  via("parseRetireConnectionIDFrame", p, parseRetireConnectionIDFrame(b, v))
           [] frameTyp = PathChallengeFrameType -> via("parsePathChallengeFrame", p, parsePathChallengeFrame(b, v))
           [] frameTyp = PathResponseFrameType -> via("parsePathResponseFrame", p, parsePathResponseFrame(b, v))
           [] frameTyp \in {ConnectionCloseFrameType, ApplicationCloseFrameType} ->
                  via("parseConnectionCloseFrame", p, parseConnectionCloseFrame(b, frameTyp, v))
           [] frameTyp = HandshakeDoneFrameType ->
                  via("", p, [frame |-> [frame |-> "HandshakeDoneFrame"], l |-> 0, err |-> nil])
           [] frameTyp \in {DatagramNoLengthFrameType, DatagramWithLengthFrameType} ->
                  IF ~p.supportsDatagrams THEN noFrame(p, 0, errUnknownFrameType, "", TRUE)
                  ELSE via("ParseDatagramFrame", p, wireParseDatagramFrame(b, frameTyp, v))
           [] frameTyp = ResetStreamAtFrameType ->
                  IF ~p.supportsResetStreamAt THEN noFrame(p, 0, errUnknownFrameType, "", TRUE)
                  ELSE via("parseResetStreamFrame", p, parseResetStreamFrame(b, TRUE, v))
           [] OTHER -> noFrame(p, 0, errUnknownFrameType, "", FALSE)

\* ParseFrame without its check of the encryption level
parseFrameCheckAnyLevel(r, frameTyp, encLevel) ==
    IF r.returned THEN r
    ELSE IF r.err # nil THEN noFrame(r.p, 0, r.err, r.routine, FALSE)
    ELSE r

\* the end of ParseFrame, r what the switch left in frame, l and err
parseFrameCheck(r, frameTyp, encLevel) ==
    IF r.returned THEN r
    ELSE IF r.err # nil THEN noFrame(r.p, 0, r.err, r.routine, FALSE)
    ELSE IF ~isAllowedAtEncLevel(frameTyp, encLevel)
    THEN noFrame(r.p, r.l, fmtErrorf(<<"%s not allowed at encryption level %s", r.frame.frame, encLevel>>),
                 r.routine, FALSE)
    ELSE r

\* ParseFrame: the frame, the bytes of the body, the error, and the parser
\* afterwards (p)
ParseFrame(p, b, frameTyp, encLevel, v) ==
    parseFrameCheck(parseFrameSwitch(p, b, frameTyp, encLevel, v), frameTyp, encLevel)

\* parseNext leaving the FrameType of the error unset
parseNextFrameUntyped(f, typ, parsed, skipped) ==
    IF f.err # nil
    THEN [frame |-> nilFrame, l |-> parsed + f.l,
          err |-> TransportError(0, FrameEncodingError, f.err.ErrorMessage),
          p |-> f.p, skipped |-> skipped, routine |-> f.routine, typ |-> typ, at |-> NoAddress]
    ELSE [frame |-> f.frame, l |-> parsed + f.l, err |-> nil,
          p |-> f.p, skipped |-> skipped, routine |-> f.routine, typ |-> typ, at |-> f.at]

\* parseNext handing on the error of ParseFrame as it got it
parseNextFrameUnwrapped(f, typ, parsed, skipped) ==
    [frame |-> IF f.err # nil THEN nilFrame ELSE f.frame, l |-> parsed + f.l, err |-> f.err,
     p |-> f.p, skipped |-> skipped, routine |-> f.routine, typ |-> typ, at |-> f.at]

\* parseNext after ParseFrame has returned f for the type code typ
parseNextFrame(f, typ, parsed, skipped) ==
    IF f.err # nil
    THEN [frame |-> nilFrame, l |-> parsed + f.l,
          err |-> TransportError(typ, FrameEncodingError, f.err.ErrorMessage),
          p |-> f.p, skipped |-> skipped, routine |-> f.routine, typ |-> typ, at |-> NoAddress]
    ELSE [frame |-> f.frame, l |-> parsed + f.l, err |-> nil,
          p |-> f.p, skipped |-> skipped, routine |-> f.routine, typ |-> typ, at |-> f.at]

RECURSIVE parseNextLoop(_, _, _, _, _, _)
RECURSIVE parseNextStep(_, _, _, _, _, _, _)
\* one pass of parseNext's loop, r the type code read from b
parseNextStep(p, b, encLevel, v, parsed, skipped, r) ==
    IF r.err # nil
    THEN [frame |-> nilFrame, l |-> parsed + r.l,
          err |-> TransportError(0, FrameEncodingError, r.err.ErrorMessage),
          p |-> p, skipped |-> skipped, routine |-> "", typ |-> 0, at |-> NoAddress]
    ELSE IF r.value = 0
    THEN parseNextLoop(p, Drop(b, r.l), encLevel, v, parsed + r.l, Append(skipped, r.l))
    ELSE parseNextFrame(ParseFrame(p, Drop(b, r.l), r.value, encLevel, v), r.value, parsed + r.l, skipped)

\* parseNext reporting nothing consumed when it finds no frame
parseNextLoopZero(p, b, encLevel, v, parsed, skipped) ==
    IF Len(b) = 0
    THEN [frame |-> nilFrame, l |-> 0, err |-> nil, p |-> p, skipped |-> skipped, routine |-> "", typ |-> 0,
          at |-> NoAddress]
    ELSE parseNextStep(p, b, encLevel, v, parsed, skipped, quicvarintParse(b))

\* the loop of parseNext on b, what is left of the region
parseNextLoop(p, b, encLevel, v, parsed, skipped) ==
    IF Len(b) = 0
    THEN [frame |-> nilFrame, l |-> parsed, err |-> nil, p |-> p, skipped |-> skipped, routine |-> "", typ |-> 0,
          at |-> NoAddress]
    ELSE parseNextStep(p, b, encLevel, v, parsed, skipped, quicvarintParse(b))

parseNext(p, b, encLevel, v) == parseNextLoop(p, b, encLevel, v, 0, <<>>)

ParseNext(p, data, encLevel, v) == parseNext(p, data, encLevel, v)

\* ParseAckFrame decoding into p.ackFrame as the last decode left it
ParseAckFrameNoReset(p, frameType, data, encLevel, v) ==
    viaAckFrame(p, wireParseAckFrame(p.ackFrame, data, frameType, ackDelayExponentAt(p, encLevel), v))

\* FrameParser.ParseAckFrame: resets and fills the parser's own AckFrame
ParseAckFrame(p, frameType, data, encLevel, v) ==
    viaAckFrame(p, wireParseAckFrame(AckFrameReset, data, frameType, ackDelayExponentAt(p, encLevel), v))

\* FrameParser.ParseDatagramFrame
ParseDatagramFrame(p, frameType, data, v) ==
    IF ~p.supportsDatagrams THEN [frame |-> nilFrame, l |-> 0, err |-> errUnknownFrameType]
    ELSE wireParseDatagramFrame(data, frameType, v)

SetAckDelayExponent(p, exp) == [p EXCEPT !.ackDelayExponent = exp % 256]

(***************************************************************************)
(* What the caller hands to the parser: regions, type codes, exponents and *)
(* the frame values it encodes.                                            *)
(***************************************************************************)
\* the bytes regions are enumerated over: PADDING, PING, STREAM,
\* RESET_STREAM_AT, DATAGRAM and three first bytes of two-byte integers
ByteSet == {0, 1, 8, ResetStreamAtFrameType, DatagramNoLengthFrameType, 64, 65, 66}

RawRegions == UNION {[1..n -> ByteSet] : n \in 0..MaxLen}

\* regions with longer type codes: 0x42, 0x108 before a one-byte body, and
\* PADDING, PING and DATAGRAM written in four and in eight bytes
SpecialRegions ==
    {<<64, 66>>, <<64, 66, 1>>, <<65, 8, 1>>, <<128, 0, 0, 0>>, <<128, 0, 0, 0, 1>>,
     <<128, 0, 0, DatagramNoLengthFrameType, 1>>, <<192, 0, 0, 0, 0, 0, 0, 0>>,
     <<192, 0, 0, 0, 0, 0, 0, 0, 0, 1>>, <<192, 0, 0, 0, 0, 0, 0, PingFrameType>>}

StreamIDs == {1, 4919}

Sizes == {66, 16384}

Datas == {<<>>, <<102, 111>>}

LessCommonFrames ==
    {[frame |-> "PingFrame"], [frame |-> "HandshakeDoneFrame"]}
    \cup {[frame |-> "ResetStreamFrame", StreamID |-> s, ErrorCode |-> 4919, FinalSize |-> 16384, ReliableSize |-> r] :
            s \in StreamIDs, r \in {0, 66}}
    \cup {[frame |-> "StopSendingFrame", StreamID |-> 4919, ErrorCode |-> 66]}
    \cup {[frame |-> "CryptoFrame", Offset |-> 4919, Data |-> d] : d \in Datas}
    \cup {[frame |-> "NewTokenFrame", Token |-> <<102, 111>>]}
    \cup {[frame |-> "MaxDataFrame", MaximumData |-> z] : z \in Sizes}
    \cup {[frame |-> "MaxStreamDataFrame", StreamID |-> 4919, MaximumStreamData |-> 16384]}
    \cup {[frame |-> "MaxStreamsFrame", Type |-> t, MaxStreamNum |-> 66] : t \in {StreamTypeBidi, StreamTypeUni}}
    \cup {[frame |-> "DataBlockedFrame", MaximumData |-> 16384]}
    \cup {[frame |-> "StreamDataBlockedFrame", StreamID |-> 1, MaximumStreamData |-> 66]}
    \cup {[frame |-> "StreamsBlockedFrame", Type |-> t, StreamLimit |-> 16384] : t \in {StreamTypeBidi, StreamTypeUni}}
    \cup {[frame |-> "NewConnectionIDFrame", SequenceNumber |-> 4919, RetirePriorTo |-> 1,
           ConnectionID |-> <<13, 14, 15, 16>>,
           StatelessResetToken |-> [i \in 1..StatelessResetTokenLen |-> i - 1]]}
    \cup {[frame |-> "RetireConnectionIDFrame", SequenceNumber |-> 4919]}
    \cup {[frame |-> "PathChallengeFrame", Data |-> [i \in 1..PathDataLen |-> i]]}
    \cup {[frame |-> "PathResponseFrame", Data |-> [i \in 1..PathDataLen |-> i + 100]]}
    \cup {[frame |-> "ConnectionCloseFrame", IsApplicationError |-> FALSE, ErrorCode |-> 4919,
           FrameType |-> CryptoFrameType, ReasonPhrase |-> <<102, 111>>],
          [frame |-> "ConnectionCloseFrame", IsApplicationError |-> TRUE, ErrorCode |-> 66,
           FrameType |-> 0, ReasonPhrase |-> <<>>]}

\* one second, in microseconds
Second == 1000000

AckFrames ==
    {[frame |-> "AckFrame", AckRanges |-> <<[Smallest |-> 1, Largest |-> 1]>>, DelayTime |-> Second,
      ECT0 |-> 0, ECT1 |-> 0, ECNCE |-> 0],
     [frame |-> "AckFrame", AckRanges |-> <<[Smallest |-> 5000, Largest |-> 5200], [Smallest |-> 1, Largest |-> 4200]>>,
      DelayTime |-> 0, ECT0 |-> 5000, ECT1 |-> 0, ECNCE |-> 10]}

StreamFrames ==
    {[frame |-> "StreamFrame", StreamID |-> 66, Offset |-> IF fin THEN 4919 ELSE 0, Fin |-> fin,
      DataLenPresent |-> dl, Data |-> <<102, 111>>] : fin \in BOOLEAN, dl \in BOOLEAN}

DatagramFrames ==
    {[frame |-> "DatagramFrame", DataLenPresent |-> dl, Data |-> <<102, 111>>] : dl \in BOOLEAN}

Frames == LessCommonFrames \cup AckFrames \cup StreamFrames \cup DatagramFrames

RECURSIVE Padding(_)
\* k PADDING frames
Padding(k) == IF k = 0 THEN <<>> ELSE <<0>> \o Padding(k - 1)

\* an input region b; orig is the frame b encodes behind pad PADDING
\* frames, nilFrame for a region that is no such encoding
Input(b) == [b |-> b, orig |-> nilFrame, pad |-> 0]

\* every frame behind up to MaxPad PADDING frames, every frame cut by two
\* bytes, and the regions with longer type codes
Inputs ==
    {[b |-> Padding(k) \o FrameAppend(<<>>, f, Version1), orig |-> f, pad |-> k] : k \in 0..MaxPad, f \in Frames}
    \cup {Input(SubSeq(FrameAppend(<<>>, f, Version1), 1, Len(FrameAppend(<<>>, f, Version1)) - 2)) : f \in Frames}
    \cup {Input(r) : r \in SpecialRegions}

\* framesToBuffer: two frames written one after the other, behind up to
\* MaxPad PADDING frames
Buffers ==
    {Padding(k) \o FrameAppend(FrameAppend(<<>>, f, Version1), g, Version1) :
        k \in 0..MaxPad, f \in Frames, g \in {[frame |-> "PingFrame"]} \cup StreamFrames}

\* the regions a caller sweeps
SweepRegions == RawRegions \cup SpecialRegions \cup Buffers

\* the regions enumerated byte by byte
RawInputs == {Input(r) : r \in RawRegions \cup SpecialRegions}

\* the type codes handed to a body decoder called on its own: the known
\* ones, PADDING, and two that map to no kind (0x42 and 0x108)
TypeCodes == KnownFrameTypes \cup {0, 66, 264}

\* a body, and a type code to decode it under
Typed(b, frameTyp) == [b |-> b, frameTyp |-> frameTyp]

BodyOf(f) == Drop(FrameAppend(<<>>, f, Version1), 1)

\* the calls of ParseLessCommonFrame: every frame's body under its own type
\* code, the body of a RESET_STREAM under every type code, and no body
\* under MAX_STREAM_DATA
LessCommonCalls ==
    {Typed(BodyOf(f), FrameTypeOf(f)) : f \in Frames}
    \cup {Typed(<<1, 66, 1>>, t) : t \in TypeCodes}
    \cup {Typed(<<>>, MaxStreamDataFrameType)}

RawBodies == {r \in RawRegions : Len(r) < MaxLen}

\* the calls of ParseFrame: every frame's body under its own type code,
\* and the type codes that are no frame's under two bodies
FrameCalls ==
    {Typed(BodyOf(f), FrameTypeOf(f)) : f \in Frames}
    \cup {Typed(b, t) : b \in {<<>>, <<1>>}, t \in {0, 66, 264}}

\* the calls of ParseAckFrame: the ACK frames, whole and cut by a byte
AckCalls ==
    {Typed(BodyOf(f), FrameTypeOf(f)) : f \in AckFrames}
    \cup {Typed(SubSeq(BodyOf(f), 1, Len(BodyOf(f)) - 1), FrameTypeOf(f)) : f \in AckFrames}

\* the calls of ParseDatagramFrame: the DATAGRAM frames, whole and cut by a byte
DatagramCalls ==
    {Typed(BodyOf(f), FrameTypeOf(f)) : f \in DatagramFrames}
    \cup {Typed(SubSeq(BodyOf(f), 1, Len(BodyOf(f)) - 1), FrameTypeOf(f)) : f \in DatagramFrames}

Exponents == {DefaultAckDelayExponent + 2}

(***************************************************************************)
(* The state: the parser, and its caller.  pc is the caller's position:    *)
(* "idle", "typed" (ParseType has returned a frame type and the body is    *)
(* still to be decoded) or "done" (a result is in hand).  call is the call *)
(* made and ret what it returned.                                          *)
(***************************************************************************)
VARIABLES parser, pc, call, ret, kept

vars == <<parser, pc, call, ret, kept>>

\* call.n is the offset of the body in call.b when ParseType came first, and
\* the cursor of a sweep; call.j counts the passes of a sweep
NoCall == [op |-> "", b |-> <<>>, data |-> <<>>, encLevel |-> "", frameType |-> 0,
           orig |-> nilFrame, pad |-> 0, typed |-> FALSE, n |-> 0, j |-> 0]

\* ret.at is the address of the frame returned when it is an AckFrame of
\* the parser
NoRet == [frame |-> nilFrame, l |-> 0, err |-> nil, frameType |-> 0, skipped |-> <<>>, routine |-> "",
          at |-> NoAddress]

\* kept is the AckFrame pointer the caller kept from an ACK decode, with the
\* contents it read through it at that time
NoKept == [at |-> NoAddress, frame |-> nilFrame]

Init ==
    /\ \E supportsDatagrams \in BOOLEAN, supportsResetStreamAt \in BOOLEAN :
          parser = NewFrameParser(supportsDatagrams, supportsResetStreamAt)
    /\ pc = "idle"
    /\ call = NoCall
    /\ ret = NoRet
    /\ kept = NoKept

CallSetAckDelayExponent(exp) ==
    /\ pc = "idle"
    /\ parser' = SetAckDelayExponent(parser, exp)
    /\ UNCHANGED <<pc, call, ret, kept>>

\* what a call returned, as the caller holds it
Returned(r, frameType, skipped, routine) ==
    [frame |-> r.frame, l |-> r.l, err |-> r.err, frameType |-> frameType, skipped |-> skipped, routine |-> routine,
     at |-> NoAddress]

TypeReturned(r) ==
    /\ ret' = [frame |-> nilFrame, l |-> r.l, err |-> r.err, frameType |-> r.frameType,
               skipped |-> r.skipped, routine |-> "", at |-> NoAddress]
    /\ pc' = IF r.err = nil THEN "typed" ELSE "done"

CallParseType(inp, encLevel) ==
    /\ pc = "idle"
    /\ TypeReturned(ParseType(parser, inp.b, encLevel))
    /\ call' = [NoCall EXCEPT !.op = "ParseType", !.b = inp.b, !.encLevel = encLevel,
                              !.orig = inp.orig, !.pad = inp.pad]
    /\ UNCHANGED <<parser, kept>>

\* the call ParseLessCommonFrame(frameType, data, v), recorded as c
DoParseLessCommonFrame(frameType, data, c) ==
    /\ ret' = Returned(ParseLessCommonFrame(parser, frameType, data, Version1), frameType, <<>>, "")
    /\ call' = [c EXCEPT !.op = "ParseLessCommonFrame", !.frameType = frameType, !.data = data]
    /\ pc' = "done"
    /\ UNCHANGED <<parser, kept>>

AckReturned(r, frameType) ==
    /\ ret' = [Returned(r, frameType, <<>>, "") EXCEPT !.at = r.at]
    /\ parser' = r.p
    /\ UNCHANGED kept

DoParseAckFrame(frameType, data, encLevel, c) ==
    /\ AckReturned(ParseAckFrame(parser, frameType, data, encLevel, Version1), frameType)
    /\ call' = [c EXCEPT !.op = "ParseAckFrame", !.frameType = frameType, !.data = data, !.encLevel = encLevel]
    /\ pc' = "done"

DoParseDatagramFrame(frameType, data, c) ==
    /\ ret' = Returned(ParseDatagramFrame(parser, frameType, data, Version1), frameType, <<>>, "")
    /\ call' = [c EXCEPT !.op = "ParseDatagramFrame", !.frameType = frameType, !.data = data]
    /\ pc' = "done"
    /\ UNCHANGED <<parser, kept>>

\* a body decoder called on its own
CallParseLessCommonFrame(frameType, data) ==
    pc = "idle" /\ DoParseLessCommonFrame(frameType, data, NoCall)

CallParseAckFrame(frameType, data, encLevel) ==
    pc = "idle" /\ DoParseAckFrame(frameType, data, encLevel, NoCall)

CallParseDatagramFrame(frameType, data) ==
    pc = "idle" /\ DoParseDatagramFrame(frameType, data, NoCall)

\* the caller of ParseType hands the type and the rest of the region on
typedCall == [call EXCEPT !.typed = TRUE, !.n = ret.l]

DecodeLessCommon ==
    pc = "typed" /\ DoParseLessCommonFrame(ret.frameType, Drop(call.b, ret.l), typedCall)

DecodeAck ==
    pc = "typed" /\ DoParseAckFrame(ret.frameType, Drop(call.b, ret.l), call.encLevel, typedCall)

DecodeDatagram ==
    pc = "typed" /\ DoParseDatagramFrame(ret.frameType, Drop(call.b, ret.l), typedCall)

FrameReturned(r, frameTyp) ==
    /\ ret' = [Returned(r, frameTyp, <<>>, r.routine) EXCEPT !.at = r.at]
    /\ parser' = r.p
    /\ UNCHANGED kept

CallParseFrame(b, frameTyp, encLevel) ==
    /\ pc = "idle"
    /\ FrameReturned(ParseFrame(parser, b, frameTyp, encLevel, Version1), frameTyp)
    /\ call' = [NoCall EXCEPT !.op = "ParseFrame", !.data = b, !.frameType = frameTyp, !.encLevel = encLevel]
    /\ pc' = "done"

NextReturned(r) ==
    /\ ret' = [Returned(r, r.typ, r.skipped, r.routine) EXCEPT !.at = r.at]
    /\ parser' = r.p
    /\ UNCHANGED kept

CallParseNext(inp, encLevel) ==
    /\ pc = "idle"
    /\ NextReturned(ParseNext(parser, inp.b, encLevel, Version1))
    /\ call' = [NoCall EXCEPT !.op = "ParseNext", !.b = inp.b, !.encLevel = encLevel,
                              !.orig = inp.orig, !.pad = inp.pad]
    /\ pc' = "done"

\* the caller keeps the AckFrame pointer an ACK decode returned
KeepAck ==
    /\ pc = "done"
    /\ ret.at # NoAddress
    /\ kept' = [at |-> ret.at, frame |-> ret.frame]
    /\ UNCHANGED <<parser, pc, call, ret>>

\* the caller is done with the result
Return ==
    /\ pc \in {"typed", "done"}
    /\ pc' = "idle"
    /\ call' = NoCall
    /\ ret' = NoRet
    /\ UNCHANGED <<parser, kept>>

\* a call is made when the caller holds no result
Next ==
    \/ pc = "idle" /\ \E exp \in Exponents : CallSetAckDelayExponent(exp)
    \/ pc = "idle" /\ \E inp \in Inputs, encLevel \in EncryptionLevels : CallParseType(inp, encLevel)
    \/ pc = "idle" /\ \E c \in LessCommonCalls : CallParseLessCommonFrame(c.frameTyp, c.b)
    \/ pc = "idle" /\ \E c \in AckCalls, encLevel \in EncryptionLevels : CallParseAckFrame(c.frameTyp, c.b, encLevel)
    \/ pc = "idle" /\ \E c \in DatagramCalls : CallParseDatagramFrame(c.frameTyp, c.b)
    \/ DecodeLessCommon
    \/ DecodeAck
    \/ DecodeDatagram
    \/ pc = "idle" /\ \E c \in FrameCalls, encLevel \in EncryptionLevels : CallParseFrame(c.b, c.frameTyp, encLevel)
    \/ pc = "idle" /\ \E inp \in Inputs, encLevel \in EncryptionLevels : CallParseNext(inp, encLevel)
    \/ KeepAck
    \/ Return

Spec == Init /\ [][Next]_vars

\* the caller starts a sweep of the region b: its cursor call.n is at the
\* start, and nothing has been returned yet
StartSweep(b) ==
    /\ pc = "idle"
    /\ pc' = "sweep"
    /\ call' = [NoCall EXCEPT !.op = "Sweep", !.b = b, !.encLevel = Encryption1RTT]
    /\ ret' = NoRet
    /\ UNCHANGED <<parser, kept>>

\* the sweep goes on: part of the region is left and no error was returned
SweepMore == pc = "sweep" /\ call.n < Len(call.b) /\ ret.err = nil

\* one pass of the sweep: ParseNext on what is left of the region (kept in
\* call.data), and the cursor moves on by the count returned
SweepStep ==
    /\ SweepMore
    /\ NextReturned(ParseNext(parser, Drop(call.b, call.n), call.encLevel, Version1))
    /\ call' = [call EXCEPT !.data = Drop(call.b, call.n), !.n = call.n + ret'.l, !.j = call.j + 1]
    /\ pc' = "sweep"

\* the sweep ends when the region is empty or an error was returned
SweepEnd ==
    /\ pc = "sweep"
    /\ ~SweepMore
    /\ pc' = "done"
    /\ UNCHANGED <<parser, call, ret, kept>>

\* a caller that sweeps regions, one after the other
NextSweep ==
    \/ pc = "idle" /\ \E b \in SweepRegions : StartSweep(b)
    \/ SweepStep
    \/ SweepEnd
    \/ Return

\* the caller runs on: a sweep that has come to its end returns, and a pass
\* that can be made is made.  The second condition is WF_vars(SweepStep)
\* written out: ParseNext returns on every region and a pass moves call.j,
\* so SweepStep is enabled exactly when SweepMore holds.
SpecSweep ==
    /\ Init /\ [][NextSweep]_vars
    /\ WF_vars(SweepEnd)
    /\ ([]<>~SweepMore \/ []<><<SweepStep>>_vars)

\* the operations that leave the parser as it is, on every short region
NextBytes ==
    \/ pc = "idle" /\ \E inp \in RawInputs, encLevel \in EncryptionLevels : CallParseType(inp, encLevel)
    \/ pc = "idle" /\ \E frameType \in TypeCodes, data \in RawBodies : CallParseLessCommonFrame(frameType, data)
    \/ pc = "idle" /\ \E frameType \in {DatagramNoLengthFrameType, DatagramWithLengthFrameType}, data \in RawBodies :
                         CallParseDatagramFrame(frameType, data)
    \/ DecodeLessCommon
    \/ DecodeDatagram
    \/ pc = "idle" /\ \E inp \in RawInputs, encLevel \in EncryptionLevels : CallParseNext(inp, encLevel)
    \/ Return

SpecBytes == Init /\ [][NextBytes]_vars

(***************************************************************************)
(* What the claims read: the region of the call in hand, classified from   *)
(* its bytes alone.                                                        *)
(***************************************************************************)
RECURSIVE NextTypeCode(_)
\* the first type code of b that is not PADDING; 0 when b holds none
NextTypeCode(b) ==
    IF Len(b) = 0 \/ quicvarintParse(b).err # nil THEN 0
    ELSE IF quicvarintParse(b).value # 0 THEN quicvarintParse(b).value
    ELSE NextTypeCode(Drop(b, quicvarintParse(b).l))

RECURSIVE Scan(_)
\* what follows the PADDING of b: the end of the region, a type code cut
\* short, or a type code
Scan(b) ==
    IF Len(b) = 0 THEN "end"
    ELSE IF quicvarintParse(b).err # nil THEN "truncated"
    ELSE IF quicvarintParse(b).value # 0 THEN "code"
    ELSE Scan(Drop(b, quicvarintParse(b).l))

\* a call of op has returned
Returns(op) == pc \in {"typed", "done"} /\ call.op = op /\ ~call.typed

\* the error ParseNext gives for a type code it does not know
UnknownKind(typ) == TransportError(typ, FrameEncodingError, <<"unknown frame type">>)

\* the type code f is encoded under, and its length on the wire
TypeLen(f) == Len(quicvarintEncode(FrameTypeOf(f)))

\* the kinds ParseLessCommonFrame owns
LessCommonOwned ==
    {PingFrameType, ResetStreamFrameType, StopSendingFrameType, CryptoFrameType, NewTokenFrameType,
     MaxDataFrameType, MaxStreamDataFrameType, BidiMaxStreamsFrameType, UniMaxStreamsFrameType,
     DataBlockedFrameType, StreamDataBlockedFrameType, BidiStreamBlockedFrameType, UniStreamBlockedFrameType,
     NewConnectionIDFrameType, RetireConnectionIDFrameType, PathChallengeFrameType, PathResponseFrameType,
     ConnectionCloseFrameType, ApplicationCloseFrameType, HandshakeDoneFrameType, ResetStreamAtFrameType}

\* C1: ParseNext on a region that starts with a type code that is neither
\* PADDING nor the code of a known kind returns no frame and the
\* unknown-frame-type TransportError carrying that code, and hands the code
\* to no decode routine.  (TLC refutes it: 0x108 is decoded as a STREAM frame.)
C1_UnmappedCodeIsUnknown ==
    (Returns("ParseNext") /\ Len(call.b) > 0 /\ quicvarintParse(call.b).err = nil
        /\ quicvarintParse(call.b).value # 0 /\ ~NewFrameType(quicvarintParse(call.b).value).ok)
    => /\ ret.frame = nilFrame
       /\ ret.err = UnknownKind(quicvarintParse(call.b).value)
       /\ ret.routine = ""

\* C2: with the datagram extension disabled, ParseNext on a region whose
\* first type code after PADDING is 0x30 or 0x31 returns no frame and the
\* unknown-frame-type TransportError carrying that code; with reset-stream-at
\* disabled the same holds of 0x24; whatever the body and the encryption level.
C2_DisabledExtensionIsUnknown ==
    (Returns("ParseNext")
        /\ \/ ~parser.supportsDatagrams
              /\ NextTypeCode(call.b) \in {DatagramNoLengthFrameType, DatagramWithLengthFrameType}
           \/ ~parser.supportsResetStreamAt /\ NextTypeCode(call.b) = ResetStreamAtFrameType)
    => /\ ret.frame = nilFrame
       /\ ret.err = UnknownKind(NextTypeCode(call.b))

C2_Witness ==
    /\ Returns("ParseNext")
    /\ ~parser.supportsDatagrams
    /\ NextTypeCode(call.b) = DatagramWithLengthFrameType
    /\ call.encLevel = EncryptionInitial
    /\ Len(call.b) > 1
    /\ ret.err = UnknownKind(DatagramWithLengthFrameType)

\* C3: with both extensions enabled and f a frame of a kind
\* ParseLessCommonFrame owns, ParseType on f's encoding at 1-RTT returns f's
\* type code and the length n of that code, and ParseLessCommonFrame on the
\* rest returns f, field for field, and the rest's length; the direction of
\* MAX_STREAMS and STREAMS_BLOCKED and the application flag of
\* CONNECTION_CLOSE follow the type code read.
C3_LessCommonRoundTrip ==
    (call.orig \in LessCommonFrames /\ call.pad = 0 /\ call.encLevel = Encryption1RTT
        /\ parser.supportsDatagrams /\ parser.supportsResetStreamAt)
    => /\ Returns("ParseType")
          => pc = "typed" /\ ret.err = nil /\ ret.frameType = FrameTypeOf(call.orig) /\ ret.l = TypeLen(call.orig)
       /\ (pc = "done" /\ call.typed /\ call.op = "ParseLessCommonFrame")
          => /\ call.frameType = FrameTypeOf(call.orig)
             /\ call.n = TypeLen(call.orig)
             /\ ret.err = nil
             /\ ret.frame = call.orig
             /\ ret.l = Len(call.b) - call.n
             /\ ret.frame.frame = "MaxStreamsFrame"
                => (ret.frame.Type = StreamTypeUni <=> call.frameType = UniMaxStreamsFrameType)
             /\ ret.frame.frame = "StreamsBlockedFrame"
                => (ret.frame.Type = StreamTypeUni <=> call.frameType = UniStreamBlockedFrameType)
             /\ ret.frame.frame = "ConnectionCloseFrame"
                => (ret.frame.IsApplicationError <=> call.frameType = ApplicationCloseFrameType)

C3_Witness ==
    /\ pc = "done" /\ call.typed /\ call.op = "ParseLessCommonFrame"
    /\ call.pad = 0 /\ call.encLevel = Encryption1RTT
    /\ parser.supportsDatagrams /\ parser.supportsResetStreamAt
    /\ call.orig \in LessCommonFrames
    /\ call.orig.frame = "MaxStreamsFrame" /\ call.orig.Type = StreamTypeUni
    /\ call.frameType = UniMaxStreamsFrameType
    /\ ret.frame = call.orig

\* C4 as the specification words it: ParseNext on a region that is empty or
\* holds PADDING only returns 0 bytes consumed, no frame and no error.
\* (TLC refutes it: the PADDING skipped is counted.)
C4_FillerOnlyConsumesNothing ==
    (Returns("ParseNext") /\ Scan(call.b) = "end")
    => ret.l = 0 /\ ret.frame = nilFrame /\ ret.err = nil

\* C4, amended: ParseNext on a region that is empty or holds PADDING only
\* returns no frame, no error, and the length of the region as the bytes
\* consumed (0 for the empty region only).
C4_FillerOnlyConsumesRegion ==
    (Returns("ParseNext") /\ Scan(call.b) = "end")
    => ret.l = Len(call.b) /\ ret.frame = nilFrame /\ ret.err = nil

C4_Witness ==
    Returns("ParseNext") /\ call.b = <<0, 0>> /\ ret.l = 2 /\ ret.frame = nilFrame /\ ret.err = nil

\* C5: ParseType on a region that is empty or holds PADDING only returns
\* io.EOF, frame type 0 and the number of bytes of PADDING skipped; on a
\* region whose next type code is cut short it returns a TransportError
\* with code FrameEncodingError instead, never io.EOF.
C5_EndOfInputIsNotAnError ==
    Returns("ParseType")
    => /\ Scan(call.b) = "end"
          => ret.err = ioEOF /\ ret.frameType = 0 /\ ret.l = Len(call.b) /\ pc = "done"
       /\ Scan(call.b) = "truncated"
          => /\ ret.err.kind = "TransportError"
             /\ ret.err.ErrorCode = FrameEncodingError
             /\ ret.err # ioEOF
             /\ pc = "done"
       /\ ret.err = ioEOF => Scan(call.b) = "end"

C5_Witness ==
    Returns("ParseType") /\ call.b = <<0, 0, 0>> /\ ret.err = ioEOF /\ ret.l = 3 /\ ret.frameType = 0

\* C6: on the encoding of a frame behind k PADDING frames, its kind
\* admissible at the encryption level, ParseType returns the frame's type
\* code and k plus the length of that code; the body decoder is handed the
\* region from that offset, and decodes the whole body from there.
C6_TypeThenBody ==
    /\ (Returns("ParseType") /\ call.orig # nilFrame
          /\ isAllowedAtEncLevel(FrameTypeOf(call.orig), call.encLevel))
       => /\ pc = "typed"
          /\ ret.err = nil
          /\ ret.frameType = FrameTypeOf(call.orig)
          /\ ret.l = call.pad + TypeLen(call.orig)
    /\ (pc = "done" /\ call.typed /\ call.orig # nilFrame)
       => /\ call.n = call.pad + TypeLen(call.orig)
          /\ call.data = Drop(call.b, call.n)
          /\ (call.op = "ParseLessCommonFrame" /\ call.orig \in LessCommonFrames
                /\ (call.frameType = ResetStreamAtFrameType => parser.supportsResetStreamAt))
             => ret.err = nil /\ ret.frame = call.orig /\ call.n + ret.l = Len(call.b)
          /\ (call.op = "ParseDatagramFrame" /\ call.orig \in DatagramFrames /\ parser.supportsDatagrams)
             => ret.err = nil /\ ret.frame = call.orig /\ call.n + ret.l = Len(call.b)
          /\ (call.op = "ParseAckFrame" /\ call.orig \in AckFrames)
             => ret.err = nil /\ ret.frame.AckRanges = call.orig.AckRanges /\ call.n + ret.l = Len(call.b)

C6_Witness ==
    /\ pc = "done" /\ call.typed /\ call.op = "ParseLessCommonFrame"
    /\ call.pad = 2 /\ call.n = 3
    /\ call.orig.frame = "MaxDataFrame"
    /\ ret.frame = call.orig
    /\ call.n + ret.l = Len(call.b)

\* C7: every PADDING entry ParseType or ParseNext skips takes one byte of
\* the region.  (TLC refutes it: a longer encoding of 0 is skipped too, and
\* takes 2, 4 or 8 bytes.)
C7_FillerTakesOneByte ==
    (Returns("ParseType") \/ Returns("ParseNext"))
    => \A i \in 1..Len(ret.skipped) : ret.skipped[i] = 1

\* C8: on a parser with an extension disabled, ParseType on a region whose
\* first type code after PADDING is that extension's fails as it does on a
\* code of no kind, and never returns the extension's kind.  (TLC refutes
\* it: ParseType does not read the toggles.)
C8_ParseTypeHidesDisabledExtension ==
    (Returns("ParseType")
        /\ \/ ~parser.supportsDatagrams
              /\ NextTypeCode(call.b) \in {DatagramNoLengthFrameType, DatagramWithLengthFrameType}
           \/ ~parser.supportsResetStreamAt /\ NextTypeCode(call.b) = ResetStreamAtFrameType)
    => /\ pc = "done"
       /\ ret.err = TransportError(0, FrameEncodingError, <<"unknown frame type: %d", NextTypeCode(call.b)>>)

\* the delay field of an ACK body: its second integer
AckDelayField(body) == quicvarintParse(Drop(body, quicvarintParse(body).l)).value

\* the body of the ACK frame the call in hand decoded
AckBody == IF call.op = "ParseNext" THEN Drop(call.b, call.pad + TypeLen(call.orig)) ELSE call.data

\* an ACK decode has returned an ACK frame
AckDecoded ==
    /\ pc = "done"
    /\ \/ call.op \in {"ParseAckFrame", "ParseFrame"} /\ call.frameType \in {AckFrameType, AckECNFrameType}
       \/ call.op = "ParseNext" /\ call.orig \in AckFrames
    /\ ret.err = nil

\* C9: an ACK decode, by ParseAckFrame, ParseFrame or ParseNext, scales the
\* delay field by the exponent SetAckDelayExponent set when the encryption
\* level is 1-RTT and by the protocol default at every other level; so a
\* delay of 1s decodes, with default+2 set, to 4s at 1-RTT and to 1s elsewhere.
C9_AckDelayExponentByLevel ==
    AckDecoded
    => /\ ret.frame.DelayTime =
              AckDelayField(AckBody) * Pow2(IF call.encLevel = Encryption1RTT THEN parser.ackDelayExponent
                                            ELSE DefaultAckDelayExponent)
       /\ (call.orig \in AckFrames /\ call.orig.DelayTime = Second
              /\ parser.ackDelayExponent = DefaultAckDelayExponent + 2)
          => ret.frame.DelayTime = IF call.encLevel = Encryption1RTT THEN 4 * Second ELSE Second

C9_Witness ==
    /\ AckDecoded /\ call.op = "ParseNext"
    /\ call.orig.DelayTime = Second
    /\ call.encLevel = Encryption1RTT
    /\ parser.ackDelayExponent = DefaultAckDelayExponent + 2
    /\ ret.frame.DelayTime = 4 * Second

\* C10: ParseLessCommonFrame on a kind it does not own, or on
\* RESET_STREAM_AT with that extension disabled, returns errUnknownFrameType,
\* a nil frame and 0 bytes consumed, whatever the data region holds.
C10_NotOwnedIsUnknown ==
    (pc = "done" /\ call.op = "ParseLessCommonFrame"
        /\ \/ call.frameType \notin LessCommonOwned
           \/ call.frameType = ResetStreamAtFrameType /\ ~parser.supportsResetStreamAt)
    => ret.err = errUnknownFrameType /\ ret.frame = nilFrame /\ ret.l = 0

C10_Witness ==
    /\ pc = "done" /\ call.op = "ParseLessCommonFrame"
    /\ call.frameType = ResetStreamAtFrameType /\ ~parser.supportsResetStreamAt
    /\ Len(call.data) = 2
    /\ ret.err = errUnknownFrameType /\ ret.l = 0

\* the encoding of MAX_STREAM_DATA frame 4919 / 16384, cut by two bytes
CutMaxStreamData ==
    SubSeq(FrameAppend(<<>>, [frame |-> "MaxStreamDataFrame", StreamID |-> 4919, MaximumStreamData |-> 16384], Version1),
           1, 5)

\* C11: every error ParseNext returns is a TransportError with code
\* FrameEncodingError and comes with a nil frame; when a type code was read
\* before the failure, the error's FrameType is that type code.
C11_ErrorsAreTransportErrors ==
    (Returns("ParseNext") /\ ret.err # nil)
    => /\ ret.err.kind = "TransportError"
       /\ ret.err.ErrorCode = FrameEncodingError
       /\ ret.frame = nilFrame
       /\ Scan(call.b) = "code" => ret.err.FrameType = NextTypeCode(call.b)

C11_Witness ==
    /\ Returns("ParseNext")
    /\ call.b = CutMaxStreamData
    /\ call.encLevel = Encryption1RTT
    /\ ret.err = TransportError(MaxStreamDataFrameType, FrameEncodingError, ioEOF.ErrorMessage)
    /\ ret.frame = nilFrame

\* the region of the call in hand starts, after PADDING, with the type code
\* of a known kind, its extension enabled, that encLevel does not admit
Inadmissible ==
    /\ Scan(call.b) = "code"
    /\ NewFrameType(NextTypeCode(call.b)).ok
    /\ NextTypeCode(call.b) \in {DatagramNoLengthFrameType, DatagramWithLengthFrameType} => parser.supportsDatagrams
    /\ NextTypeCode(call.b) = ResetStreamAtFrameType => parser.supportsResetStreamAt
    /\ ~isAllowedAtEncLevel(NextTypeCode(call.b), call.encLevel)

\* the messages of the two not-allowed errors, by their format
NotAllowedMessage(msg) ==
    /\ Len(msg) = 3
    /\ msg[1] \in {"%d not allowed at encryption level %s", "%s not allowed at encryption level %s"}

\* C12 as the claim words it: on a region whose first type code after
\* PADDING is of a known kind the encryption level does not admit, ParseType
\* and ParseNext both fail with code FrameEncodingError and a not-allowed
\* message.  (TLC refutes it: ParseNext decodes the body first, and a body
\* cut short fails with the decoder's error.)
C12_InadmissibleIsNotAllowed ==
    ((Returns("ParseType") \/ Returns("ParseNext")) /\ Inadmissible)
    => /\ pc = "done"
       /\ ret.err.kind = "TransportError"
       /\ ret.err.ErrorCode = FrameEncodingError
       /\ NotAllowedMessage(ret.err.ErrorMessage)

\* C12, amended: on such a region neither ParseType nor ParseNext succeeds,
\* both fail with code FrameEncodingError and never with the
\* unknown-frame-type message; ParseType's message is the not-allowed one,
\* and so is ParseNext's whenever the region holds a whole frame, while a
\* malformed body fails with the body decoder's error.
C12_InadmissibleNeverSucceeds ==
    ((Returns("ParseType") \/ Returns("ParseNext")) /\ Inadmissible)
    => /\ pc = "done"
       /\ ret.frame = nilFrame
       /\ ret.err.kind = "TransportError"
       /\ ret.err.ErrorCode = FrameEncodingError
       /\ ret.err.ErrorMessage # <<"unknown frame type">>
       /\ ret.err.ErrorMessage[1] # "unknown frame type: %d"
       /\ call.op = "ParseType"
          => ret.err.ErrorMessage =
                <<"%d not allowed at encryption level %s", NextTypeCode(call.b), call.encLevel>>
       /\ (call.op = "ParseNext" /\ call.orig # nilFrame)
          => /\ ret.err.FrameType = FrameTypeOf(call.orig)
             /\ ret.err.ErrorMessage =
                   <<"%s not allowed at encryption level %s", call.orig.frame, call.encLevel>>

C12_Witness ==
    /\ Returns("ParseNext") /\ Inadmissible
    /\ call.orig.frame = "MaxDataFrame"
    /\ call.encLevel = EncryptionInitial
    /\ ret.err = TransportError(MaxDataFrameType, FrameEncodingError,
                                <<"%s not allowed at encryption level %s", "MaxDataFrame", EncryptionInitial>>)

\* an ACK decode of the encoding of an ACK frame has returned
AckOfOrig ==
    /\ pc = "done" /\ ret.err = nil /\ call.orig \in AckFrames
    /\ call.op = "ParseNext" \/ (call.op = "ParseAckFrame" /\ call.typed)

\* C13: every ACK decode returns the one AckFrame the parser allocated at
\* construction, reset before it is filled: the frame returned is
\* p.ackFrame, at the address NewFrameParser gave it, and holds nothing of
\* the decode before; so a pointer kept from an earlier ACK decode is that
\* same address, and reads the contents of the latest ACK decode.
C13_OneAckFrameReused ==
    /\ parser.ackFrameAt = FirstAddress
    /\ (AckDecoded \/ (pc = "done" /\ call.op = "ParseAckFrame"))
       => ret.at = parser.ackFrameAt /\ ret.frame = parser.ackFrame
    /\ AckOfOrig
       => /\ ret.frame.AckRanges = call.orig.AckRanges
          /\ ret.frame.ECT0 = call.orig.ECT0
          /\ ret.frame.ECT1 = call.orig.ECT1
          /\ ret.frame.ECNCE = call.orig.ECNCE
    /\ kept.at # NoAddress => kept.at = parser.ackFrameAt
    /\ ret.at # NoAddress => ret.at = parser.ackFrameAt

C13_Witness ==
    /\ AckOfOrig /\ call.op = "ParseNext"
    /\ kept.at = parser.ackFrameAt
    /\ Len(kept.frame.AckRanges) = 2
    /\ Len(ret.frame.AckRanges) = 1
    /\ ret.at = kept.at
    /\ parser.ackFrame = ret.frame
    /\ parser.ackFrame # kept.frame

\* the step is a call of the parser that has returned
CallStep == pc # "done" /\ pc' # "idle"

\* the call that has returned is an ACK decode: ParseAckFrame, or ParseFrame
\* or ParseNext on an ACK type code
AckCall ==
    \/ call'.op = "ParseAckFrame"
    \/ call'.op \in {"ParseFrame", "ParseNext"} /\ ret'.frameType \in {AckFrameType, AckECNFrameType}

\* C14: the parser changes only as follows: the two extension toggles (and
\* the address of its AckFrame) never; the ACK delay exponent only in
\* SetAckDelayExponent; the AckFrame only in an ACK decode.  ParseType,
\* ParseLessCommonFrame, ParseDatagramFrame and ParseNext on a frame that
\* is not an ACK leave the parser as it was.
C14_ParserChangesOnlyInPlace ==
    [][/\ parser'.supportsDatagrams = parser.supportsDatagrams
       /\ parser'.supportsResetStreamAt = parser.supportsResetStreamAt
       /\ parser'.ackFrameAt = parser.ackFrameAt
       /\ parser'.ackDelayExponent # parser.ackDelayExponent
          => pc = "idle" /\ pc' = "idle" /\ parser' = SetAckDelayExponent(parser, parser'.ackDelayExponent)
       /\ parser'.ackFrame # parser.ackFrame => CallStep /\ AckCall
       /\ (CallStep /\ call'.op \in {"ParseType", "ParseLessCommonFrame", "ParseDatagramFrame"})
          => parser' = parser
       /\ (CallStep /\ call'.op \in {"ParseNext", "ParseFrame"} /\ ~AckCall) => parser' = parser]_vars

C14_Witness ==
    /\ Returns("ParseNext") /\ ret.err = nil /\ ret.frame.frame = "MaxDataFrame"
    /\ parser.ackFrame # AckFrameReset
    /\ parser.ackDelayExponent = DefaultAckDelayExponent + 2
    /\ parser.supportsDatagrams /\ parser.supportsResetStreamAt

\* a pass of the sweep has returned
SweepReturned == call.op = "Sweep" /\ Len(call.data) > 0

\* C15: a ParseNext call on a region that is not empty, returning no
\* error, consumes at least one byte and no more than the region holds,
\* frame or no frame; so the cursor of the caller's sweep never passes the
\* end of the region, a sweep makes no more passes than the region has
\* bytes, and every sweep ends.
C15_SweepTerminates ==
    /\ [](SweepReturned /\ ret.err = nil => 1 <= ret.l /\ ret.l <= Len(call.data))
    /\ [](call.op = "Sweep" => call.n <= Len(call.b) /\ call.j <= Len(call.b))
    /\ (pc = "sweep") ~> (pc = "done")

C15_Witness ==
    /\ pc = "done" /\ call.op = "Sweep" /\ ret.err = nil
    /\ call.b = <<0, PingFrameType, 0>>
    /\ call.data = <<0>>
    /\ ret.l = 1 /\ ret.frame = nilFrame
    /\ call.n = Len(call.b) /\ call.j = 2

====
